---- MODULE Spec2Model ----
(***************************************************************************)
(* Lookup history and map synchronisation of the HomeScreen component.     *)
(*                                                                         *)
(* Texts (the search box, ip keys, the "lat,lon" field) are sequences of   *)
(* one-character strings so that trimming, the IP regular expressions and  *)
(* the coordinate parse can be computed as the code computes them.         *)
(* React state updates made by one handler are batched into one render;    *)
(* the effects of that render run in the same step as the handler.         *)
(***************************************************************************)
EXTENDS Integers, Sequences, FiniteSets, TLC

VARIABLES
    geo,                \* useState(null): the current GeoRecord, or Null
    search,             \* useState(""): the text of the search box
    error,              \* useState(""): the message shown under the search box
    history,            \* useState(load): sequence of entries, newest first
    selectedForDelete,  \* useState({}): the history indices (0-based) mapped to true
    storage,            \* localStorage slot STORAGE_KEY: NoItem or a JSON text
    pending,            \* fetch promises not yet settled: records [id, query]
    nextId,             \* number of fetchGeoFor calls made so far
    latest,             \* how the fetch of the latest fetchGeoFor call has settled
    clock,              \* the wall clock: the next reading of new Date()
    mounted,            \* FALSE once a render has thrown and React unmounted the tree
    storageFull,        \* TRUE while localStorage.setItem throws QuotaExceededError
    mapRefAttached,     \* mapRef.current is the map <div> (it is rendered iff geo)
    mapRefDep,          \* value of the dependency [mapRef.current] at the last render
    mapInstance,        \* mapInstanceRef.current is a Leaflet map
    mapView,            \* the map's viewport: [lat, lon, zoom]
    marker,             \* markerRef.current: Null or [lat, lon, popup, open]
    markersCreated,     \* number of L.marker(...) layers added to the map
    precisionCircle,    \* mapInstance._precisionCircle: Null or [lat, lon, radius]
    circleLayers        \* the circle layers currently on the map

vars == <<geo, search, error, history, selectedForDelete, storage, pending,
          nextId, latest, clock, mounted, storageFull, mapRefAttached,
          mapRefDep, mapInstance, mapView, marker, markersCreated,
          precisionCircle, circleLayers>>

sessionVars == <<geo, search, error, history, selectedForDelete>>
mapVars == <<mapRefAttached, mapRefDep, mapInstance, mapView, marker,
             markersCreated, precisionCircle, circleLayers>>

----------------------------------------------------------------------------
(* Bounds of the model *)

MaxDispatch == 3        \* fetchGeoFor calls per session, the mount lookup included
MaxRow == 2             \* rows 0..MaxRow of the history list can be clicked or ticked

(* Program constants *)

HistoryCap == 50        \* .slice(0, 50)
MapZoom == 12           \* setView([lat, lon], 12, ...)
CircleRadius == 500     \* radius: 500

Absent == "undefined"

----------------------------------------------------------------------------
(* Text helpers *)

Digit == <<"0", "1", "2", "3", "4", "5", "6", "7", "8", "9">>
DigitChars == {Digit[i] : i \in 1..10}
HexChars == DigitChars \cup {"a", "b", "c", "d", "e", "f",
                             "A", "B", "C", "D", "E", "F"}
WhiteSpace == {" ", "\t", "\n"}

Min(a, b) == IF a <= b THEN a ELSE b

RECURSIVE TrimStart(_)
TrimStart(s) ==
    IF s # <<>> /\ Head(s) \in WhiteSpace THEN TrimStart(Tail(s)) ELSE s

RECURSIVE TrimEnd(_)
TrimEnd(s) ==
    IF s # <<>> /\ s[Len(s)] \in WhiteSpace
    THEN TrimEnd(SubSeq(s, 1, Len(s) - 1))
    ELSE s

\* String.prototype.trim
Trim(s) == TrimEnd(TrimStart(s))

\* String.prototype.split(sep) for a one-character separator
RECURSIVE Split(_, _)
Split(s, sep) ==
    IF \A i \in 1..Len(s) : s[i] # sep
    THEN <<s>>
    ELSE LET k == CHOOSE i \in 1..Len(s) :
                      s[i] = sep /\ \A j \in 1..(i - 1) : s[j] # sep
         IN  <<SubSeq(s, 1, k - 1)>> \o Split(SubSeq(s, k + 1, Len(s)), sep)

\* Decimal digits of a natural number below 100
Decimal(n) ==
    IF n < 10 THEN <<Digit[n + 1]>>
    ELSE <<Digit[(n \div 10) + 1], Digit[(n % 10) + 1]>>

----------------------------------------------------------------------------
(* Address validation: IP_REGEX *)

\* 25[0-5]|2[0-4]\d|1?\d{1,2}
OctetMatches(p) ==
    /\ Len(p) \in 1..3
    /\ \A i \in 1..Len(p) : p[i] \in DigitChars
    /\ Len(p) = 3 =>
          \/ p[1] = "1"
          \/ p[1] = "2" /\ p[2] \in {"0", "1", "2", "3", "4"}
          \/ p[1] = "2" /\ p[2] = "5" /\ p[3] \in {"0", "1", "2", "3", "4", "5"}

\* IP_REGEX.ipv4.test(ip)
MatchesIpv4(ip) ==
    LET parts == Split(ip, ".")
    IN  /\ Len(parts) = 4
        /\ \A i \in 1..4 : OctetMatches(parts[i])

\* [0-9a-fA-F]{1,4}
GroupMatches(p) ==
    /\ Len(p) \in 1..4
    /\ \A i \in 1..Len(p) : p[i] \in HexChars

\* IP_REGEX.ipv6.test(ip)
MatchesIpv6(ip) ==
    LET parts == Split(ip, ":")
    IN  \/ /\ Len(parts) = 8
           /\ \A i \in 1..8 : GroupMatches(parts[i])
        \/ ip = <<":", ":", "1">>

Classify(text) ==
    LET ip == Trim(text)
    IN  IF ip = <<>> THEN "Invalid"
        ELSE IF MatchesIpv4(ip) THEN "IPv4"
        ELSE IF MatchesIpv6(ip) THEN "IPv6"
        ELSE "Invalid"

----------------------------------------------------------------------------
(* GeoRecords returned by the lookup provider.  A field the provider omits *)
(* is Absent (AbsentLoc for loc, which is a text).                         *)

AbsentLoc == <<Absent>>

GeoManila ==
    [ip |-> "8.8.8.8", city |-> "Manila", region |-> "NCR", country |-> "PH",
     loc |-> <<"1", "2", ".", "3", ",", "-", "4", "5", ".", "6">>, org |-> "AS1"]

GeoNoLoc ==
    [ip |-> Absent, city |-> Absent, region |-> Absent, country |-> Absent,
     loc |-> AbsentLoc, org |-> "AS2"]

GeoCebu ==
    [ip |-> "1.1.1.1", city |-> "Cebu", region |-> Absent, country |-> "PH",
     loc |-> <<"1", "0", ",", "7">>, org |-> Absent]

\* The bodies res.json() can yield
Responses == {GeoManila, GeoNoLoc}

\* The query of the automatic lookup: fetchGeoFor("geo")
SelfQuery == <<"g", "e", "o">>

----------------------------------------------------------------------------
(* The durable slot.  A JSON text is a sequence of tokens [t, v]: the      *)
(* brackets of an array, and one "object" token per entry carrying it.     *)

Tok(t) == [t |-> t, v |-> <<>>]
ObjTok(e) == [t |-> "object", v |-> <<e>>]

NoItem == [present |-> FALSE, text |-> <<>>]
Item(text) == [present |-> TRUE, text |-> text]

\* JSON.stringify(array of entries)
Stringify(h) ==
    <<Tok("[")>> \o [i \in 1..Len(h) |-> ObjTok(h[i])] \o <<Tok("]")>>

\* JSON.parse(text): [ok, isArray, value]; ok = FALSE when it throws SyntaxError
JsonParse(text) ==
    IF /\ Len(text) >= 2
       /\ text[1].t = "["
       /\ text[Len(text)].t = "]"
       /\ \A i \in 2..(Len(text) - 1) : text[i].t = "object"
    THEN [ok |-> TRUE, isArray |-> TRUE,
          value |-> [i \in 1..(Len(text) - 2) |-> text[i + 1].v[1]]]
    ELSE IF Len(text) = 1 /\ text[1].t = "null"
    THEN [ok |-> TRUE, isArray |-> FALSE, value |-> <<>>]
    ELSE [ok |-> FALSE, isArray |-> FALSE, value |-> <<>>]

\* useState initializer of history:
\*   try { JSON.parse(localStorage.getItem(STORAGE_KEY) || "[]") } catch { [] }
\* [isArray, value]: a parsed value that is no array makes the render throw.
LoadHistory(slot) ==
    LET text == IF slot.present /\ slot.text # <<>> THEN slot.text
                ELSE Stringify(<<>>)
        parsed == JsonParse(text)
    IN  IF parsed.ok THEN [isArray |-> parsed.isArray, value |-> parsed.value]
        ELSE [isArray |-> TRUE, value |-> <<>>]

----------------------------------------------------------------------------
(* History entries *)

\* The k-th address looked up in earlier sessions: 10.0.0.k
IpN(k) == <<"1", "0", ".", "0", ".", "0", ".">> \o Decimal(k)

StoredEntry(k) == [ip |-> IpN(k), data |-> GeoManila, when |-> 0]

\* A history of n entries saved by an earlier session, newest first
StoredHistory(n) == [i \in 1..n |-> StoredEntry(i)]

\* What the slot can hold when the component mounts: nothing, an empty
\* text, damaged text, JSON that is no array, or a history saved earlier
InitialSlots ==
    {NoItem, Item(<<>>), Item(<<Tok("{"), Tok("not json")>>), Item(<<Tok("null")>>),
     Item(Stringify(StoredHistory(0))), Item(Stringify(StoredHistory(3)))}

\* A slot holding a history that is full, or one entry short of it
FullSlots ==
    {Item(Stringify(StoredHistory(n))) : n \in {HistoryCap - 1, HistoryCap}}

RECURSIVE FilterOutIp(_, _)
\* prev.filter((h) => h.ip !== query)
FilterOutIp(prev, query) ==
    IF prev = <<>> THEN <<>>
    ELSE IF Head(prev).ip # query
    THEN <<Head(prev)>> \o FilterOutIp(Tail(prev), query)
    ELSE FilterOutIp(Tail(prev), query)

\* Array.prototype.slice(0, n)
Slice0(s, n) == SubSeq(s, 1, Min(n, Len(s)))

\* Mutant: the result is not truncated
Deduped_NoSlice(prev, entry) ==
    <<entry>> \o FilterOutIp(prev, entry.ip)

\* Mutant: the old entry of the same ip is not filtered out
Deduped_NoFilter(prev, entry) ==
    Slice0(<<entry>> \o prev, HistoryCap)

\* Mutant: the truncation keeps the last 50 entries instead of the first 50
Deduped_SliceFromEnd(prev, entry) ==
    LET all == <<entry>> \o FilterOutIp(prev, entry.ip)
    IN  SubSeq(all, Len(all) - Min(Len(all), HistoryCap) + 1, Len(all))

\* [entry, ...prev.filter((h) => h.ip !== query)].slice(0, 50)
Deduped(prev, entry) ==
    Slice0(<<entry>> \o FilterOutIp(prev, entry.ip), HistoryCap)

\* !!selectedForDelete[idx]: a key that is missing and a key mapped to false
\* read the same everywhere, so the object is kept as the set of its true keys
IsSelected(sel, idx) == idx \in sel

RECURSIVE FilterUnselected(_, _, _)
\* history.filter((_, idx) => !selectedForDelete[idx]), from index idx on
FilterUnselected(h, sel, idx) ==
    IF h = <<>> THEN <<>>
    ELSE IF ~IsSelected(sel, idx)
    THEN <<Head(h)>> \o FilterUnselected(Tail(h), sel, idx + 1)
    ELSE FilterUnselected(Tail(h), sel, idx + 1)

\* Mutant: the rows are counted from 1
Remaining_OneBased(h, sel) == FilterUnselected(h, sel, 1)

Remaining(h, sel) == FilterUnselected(h, sel, 0)

\* { ...prev, [idx]: !prev[idx] }
Toggled(prev, idx) ==
    IF IsSelected(prev, idx) THEN prev \ {idx} ELSE prev \cup {idx}

EmptySelection == {}

----------------------------------------------------------------------------
(* Map synchronisation: the effect that runs when geo changes *)

NaN == [nan |-> TRUE, neg |-> FALSE, whole |-> 0, frac |-> <<>>]

RECURSIVE LeadingDigits(_)
LeadingDigits(s) ==
    IF s # <<>> /\ Head(s) \in DigitChars
    THEN <<Head(s)>> \o LeadingDigits(Tail(s))
    ELSE <<>>

DigitValue(c) == CHOOSE n \in 0..9 : Digit[n + 1] = c

RECURSIVE ToNat(_)
ToNat(ds) ==
    IF ds = <<>> THEN 0
    ELSE 10 * ToNat(SubSeq(ds, 1, Len(ds) - 1)) + DigitValue(ds[Len(ds)])

RECURSIVE StripTrailingZeros(_)
StripTrailingZeros(ds) ==
    IF ds # <<>> /\ ds[Len(ds)] = "0"
    THEN StripTrailingZeros(SubSeq(ds, 1, Len(ds) - 1))
    ELSE ds

\* parseFloat(v) on decimal notation: leading white space, a sign, digits and
\* a fraction; whatever follows the number is ignored.
ParseFloat(v) ==
    LET t == TrimStart(v)
        signed == t # <<>> /\ Head(t) \in {"+", "-"}
        u == IF signed THEN Tail(t) ELSE t
        whole == LeadingDigits(u)
        rest == SubSeq(u, Len(whole) + 1, Len(u))
        frac == IF rest # <<>> /\ Head(rest) = "."
                THEN LeadingDigits(Tail(rest)) ELSE <<>>
    IN  IF whole = <<>> /\ frac = <<>> THEN NaN
        ELSE [nan |-> FALSE, neg |-> signed /\ Head(t) = "-",
              whole |-> ToNat(whole), frac |-> StripTrailingZeros(frac)]

\* (geo.loc || "").split(",").map((v) => parseFloat(v))
LocParts(g) ==
    LET loc == IF g.loc = AbsentLoc THEN <<>> ELSE g.loc
        raw == Split(loc, ",")
    IN  [i \in 1..Len(raw) |-> ParseFloat(raw[i])]

\* parts.length !== 2 || parts.some((n) => Number.isNaN(n)), negated
LocParsable(g) ==
    LET parts == LocParts(g)
    IN  Len(parts) = 2 /\ \A i \in 1..2 : ~parts[i].nan

Truthy(field) == field # Absent /\ field # ""

\* popupParts: one labelled line per field that is present
PopupParts(g) ==
    (IF Truthy(g.ip) THEN <<<<"IP", g.ip>>>> ELSE <<>>)
    \o (IF Truthy(g.city) THEN <<<<"City", g.city>>>> ELSE <<>>)
    \o (IF Truthy(g.region) THEN <<<<"Region", g.region>>>> ELSE <<>>)
    \o (IF Truthy(g.country) THEN <<<<"Country", g.country>>>> ELSE <<>>)
    \o (IF Truthy(g.org) THEN <<<<"Org", g.org>>>> ELSE <<>>)

\* L.map(mapRef.current, { center: [20, 0], zoom: 2, minZoom: 2 })
InitialCenterLat == 20
InitialCenterLon == 0
InitialZoom == 2
InitialView ==
    [lat |-> [nan |-> FALSE, neg |-> FALSE, whole |-> InitialCenterLat, frac |-> <<>>],
     lon |-> [nan |-> FALSE, neg |-> FALSE, whole |-> InitialCenterLon, frac |-> <<>>],
     zoom |-> InitialZoom]

\* map.removeLayer(layer): the first layer equal to it is taken off the map
RECURSIVE RemoveLayer(_, _)
RemoveLayer(layers, layer) ==
    IF layers = <<>> THEN <<>>
    ELSE IF Head(layers) = layer THEN Tail(layers)
    ELSE <<Head(layers)>> \o RemoveLayer(Tail(layers), layer)

\* Mutant: the new circle is added without removing the previous one
PlaceOnMap_KeepsOldCircle(g) ==
    LET parts == LocParts(g)
        lat == parts[1]
        lon == parts[2]
        circle == [lat |-> lat, lon |-> lon, radius |-> CircleRadius]
    IN  /\ mapView' = [lat |-> lat, lon |-> lon, zoom |-> MapZoom]
        /\ marker' = <<[lat |-> lat, lon |-> lon,
                        popup |-> PopupParts(g), open |-> TRUE]>>
        /\ markersCreated' = IF marker = <<>> THEN markersCreated + 1
                             ELSE markersCreated
        /\ precisionCircle' = <<circle>>
        /\ circleLayers' = circleLayers \o <<circle>>

\* The body of the geo effect once the early returns are passed
PlaceOnMap(g) ==
    LET parts == LocParts(g)
        lat == parts[1]
        lon == parts[2]
        circle == [lat |-> lat, lon |-> lon, radius |-> CircleRadius]
    IN  /\ mapView' = [lat |-> lat, lon |-> lon, zoom |-> MapZoom]
        /\ marker' = <<[lat |-> lat, lon |-> lon,
                        popup |-> PopupParts(g), open |-> TRUE]>>
        /\ markersCreated' = IF marker = <<>> THEN markersCreated + 1
                             ELSE markersCreated
        /\ precisionCircle' = <<circle>>
        /\ circleLayers' =
              (IF precisionCircle # <<>>
               THEN RemoveLayer(circleLayers, precisionCircle[1])
               ELSE circleLayers) \o <<circle>>

\* Mutant: a record that cannot be placed takes the precision circle away
GeoEffect_RemovesCircle(g, hasMap, created) ==
    IF g # <<>> /\ hasMap /\ LocParsable(g[1])
    THEN PlaceOnMap(g[1])
    ELSE /\ mapView' = IF created THEN InitialView ELSE mapView
         /\ precisionCircle' = <<>>
         /\ circleLayers' = <<>>
         /\ UNCHANGED <<marker, markersCreated>>

\* Mutant: a record that cannot be placed resets the viewport
GeoEffect_ResetsView(g, hasMap, created) ==
    IF g # <<>> /\ hasMap /\ LocParsable(g[1])
    THEN PlaceOnMap(g[1])
    ELSE /\ mapView' = InitialView
         /\ UNCHANGED <<marker, markersCreated, precisionCircle, circleLayers>>

\* useEffect(..., [geo]); hasMap is mapInstanceRef.current at that time
GeoEffect(g, hasMap, created) ==
    IF g # <<>> /\ hasMap /\ LocParsable(g[1])
    THEN PlaceOnMap(g[1])
    ELSE /\ mapView' = IF created THEN InitialView ELSE mapView
         /\ UNCHANGED <<marker, markersCreated, precisionCircle, circleLayers>>

\* One render and its effects.  The map effect has the dependency
\* [mapRef.current], read while rendering, that is before this commit attaches
\* the <div>; it runs before the geo effect.
Commit(newGeo, geoSet) ==
    LET dep == mapRefAttached
        attached == newGeo # <<>>
        created == dep # mapRefDep /\ attached /\ ~mapInstance
    IN  /\ mapRefAttached' = attached
        /\ mapRefDep' = dep
        /\ mapInstance' = (mapInstance \/ created)
        /\ IF geoSet
           THEN GeoEffect(newGeo, mapInstance \/ created, created)
           ELSE /\ mapView' = IF created THEN InitialView ELSE mapView
                /\ UNCHANGED <<marker, markersCreated, precisionCircle,
                               circleLayers>>

\* The tree is unmounted: the cleanup of the map effect removes the map
\* (mapInstanceRef.current.remove(); mapInstanceRef.current = null)
Unmounted ==
    /\ mapInstance' = FALSE
    /\ circleLayers' = <<>>
    /\ UNCHANGED <<mapRefAttached, mapRefDep, mapView, marker, markersCreated,
                   precisionCircle>>

\* A handler has returned: React renders iff a state it set has changed
\* (setGeo always passes a new object).
AfterHandler(geoSet) ==
    IF geoSet \/ sessionVars' # sessionVars
    THEN Commit(geo', geoSet)
    ELSE UNCHANGED mapVars

----------------------------------------------------------------------------
(* The session *)

EnterIpMsg == "Please enter an IP address."
InvalidIpMsg == "Please enter a valid IPv4 or IPv6 address."
FetchFailedMsg == "Unable to fetch geolocation for the provided IP."

\* What the user types into the search box
SearchTexts ==
    { <<" ">>,
      <<" ">> \o IpN(3) \o <<" ">>,
      IpN(25) \o <<"6">> }

\* An address that no stored history holds: 10.0.0.99
NewIp == IpN(99)

\* The three ways the try block of fetchGeoFor throws
FailKinds == {"network", "status", "body"}

NotCalled == [status |-> "none", data |-> <<>>]
InFlight == [status |-> "pending", data |-> <<>>]
Fulfilled(data) == [status |-> "ok", data |-> <<data>>]
Rejected == [status |-> "failed", data |-> <<>>]

\* The component mounts: state initializers, first render, mount effects.
\* With a parsed history that is no array the first render throws.
Mount(slots) ==
    /\ storage \in slots
    /\ LET loaded == LoadHistory(storage)
       IN  /\ history = loaded.value
           /\ mounted = loaded.isArray
           /\ pending = IF loaded.isArray
                        THEN {[id |-> 0, query |-> SelfQuery]} ELSE {}
           /\ nextId = IF loaded.isArray THEN 1 ELSE 0
           /\ latest = IF loaded.isArray THEN InFlight ELSE NotCalled
    /\ geo = <<>>
    /\ search = <<>>
    /\ error = ""
    /\ selectedForDelete = EmptySelection
    /\ clock = 1
    /\ storageFull = FALSE
    /\ mapRefAttached = FALSE
    /\ mapRefDep = FALSE
    /\ mapInstance = FALSE
    /\ mapView = InitialView
    /\ marker = <<>>
    /\ markersCreated = 0
    /\ precisionCircle = <<>>
    /\ circleLayers = <<>>

Init == Mount(InitialSlots)

\* A session that starts with a (nearly) full history
InitFull == Mount(FullSlots)

\* fetchGeoFor(query) up to its first await: setError(""), fetch(url)
FetchGeoFor(query) ==
    /\ nextId < MaxDispatch
    /\ error' = ""
    /\ pending' = pending \cup {[id |-> nextId, query |-> query]}
    /\ latest' = InFlight
    /\ nextId' = nextId + 1

\* onChange of the search box
SetSearch(text) ==
    /\ mounted
    /\ text # search
    /\ search' = text
    /\ UNCHANGED <<geo, error, history, selectedForDelete, storage, pending,
                   nextId, latest, clock, mounted, storageFull>>
    /\ AfterHandler(FALSE)

\* Mutant: only the empty text is rejected
handleSearch_NoRegex ==
    /\ mounted
    /\ LET ip == Trim(search)
       IN  IF ip = <<>>
           THEN /\ error' = EnterIpMsg
                /\ UNCHANGED <<pending, nextId, latest>>
           ELSE FetchGeoFor(ip)
    /\ UNCHANGED <<geo, search, history, selectedForDelete, storage, clock,
                   mounted, storageFull>>
    /\ AfterHandler(FALSE)

handleSearch ==
    /\ mounted
    /\ LET ip == Trim(search)
       IN  IF ip = <<>>
           THEN /\ error' = EnterIpMsg
                /\ UNCHANGED <<pending, nextId, latest>>
           ELSE IF ~MatchesIpv4(ip) /\ ~MatchesIpv6(ip)
           THEN /\ error' = InvalidIpMsg
                /\ UNCHANGED <<pending, nextId, latest>>
           ELSE FetchGeoFor(ip)
    /\ UNCHANGED <<geo, search, history, selectedForDelete, storage, clock,
                   mounted, storageFull>>
    /\ AfterHandler(FALSE)

handleClear ==
    /\ mounted
    /\ search' = <<>>
    /\ FetchGeoFor(SelfQuery)
    /\ UNCHANGED <<geo, history, selectedForDelete, storage, clock, mounted,
                   storageFull>>
    /\ AfterHandler(FALSE)

\* onClick of the ip of history row idx
handleHistoryClick(idx) ==
    /\ mounted
    /\ idx < Len(history)
    /\ search' = history[idx + 1].ip
    /\ FetchGeoFor(history[idx + 1].ip)
    /\ UNCHANGED <<geo, history, selectedForDelete, storage, clock, mounted,
                   storageFull>>
    /\ AfterHandler(FALSE)

\* onChange of the checkbox of history row idx
toggleSelect(idx) ==
    /\ mounted
    /\ idx < Len(history)
    /\ selectedForDelete' = Toggled(selectedForDelete, idx)
    /\ UNCHANGED <<geo, search, error, history, storage, pending, nextId,
                   latest, clock, mounted, storageFull>>
    /\ AfterHandler(FALSE)

\* Mutant: the remaining entries are not written to the slot
deleteSelected_NoSave ==
    /\ mounted
    /\ history' = Remaining(history, selectedForDelete)
    /\ selectedForDelete' = EmptySelection
    /\ UNCHANGED <<geo, search, error, storage, pending, nextId, latest, clock,
                   mounted, storageFull>>
    /\ AfterHandler(FALSE)

\* A setItem that throws leaves the handler before setSelectedForDelete({})
deleteSelected ==
    /\ mounted
    /\ LET remaining == Remaining(history, selectedForDelete)
       IN  /\ history' = remaining
           /\ IF storageFull
              THEN UNCHANGED <<storage, selectedForDelete>>
              ELSE /\ storage' = Item(Stringify(remaining))
                   /\ selectedForDelete' = EmptySelection
    /\ UNCHANGED <<geo, search, error, pending, nextId, latest, clock,
                   mounted, storageFull>>
    /\ AfterHandler(FALSE)

\* onClick of Clear All: setHistory([]); localStorage.removeItem(STORAGE_KEY)
clearAll ==
    /\ mounted
    /\ history' = <<>>
    /\ storage' = NoItem
    /\ UNCHANGED <<geo, search, error, selectedForDelete, pending, nextId,
                   latest, clock, mounted, storageFull>>
    /\ AfterHandler(FALSE)

\* The history updater of fetchGeoFor.  It runs while React renders, so a
\* setItem that throws there makes the render throw and the tree unmount.
SaveLookup(query, data, when) ==
    LET deduped == Deduped(history, [ip |-> query, data |-> data, when |-> when])
    IN  IF storageFull
        THEN /\ mounted' = FALSE
             /\ UNCHANGED <<history, storage>>
        ELSE /\ history' = deduped
             /\ storage' = Item(Stringify(deduped))
             /\ UNCHANGED mounted

\* Mutant: the automatic lookup is saved to the history too
ResponseOk_SavesSelf(r, data) ==
    /\ mounted
    /\ r \in pending
    /\ pending' = pending \ {r}
    /\ latest' = IF r.id = nextId - 1 THEN Fulfilled(data) ELSE latest
    /\ geo' = <<data>>
    /\ clock' = clock + 1
    /\ SaveLookup(r.query, data, clock)
    /\ UNCHANGED <<search, error, selectedForDelete, nextId, storageFull>>
    /\ AfterHandler(TRUE)

\* fetchGeoFor after its awaits, the response being ok with a JSON body
ResponseOk(r, data) ==
    /\ mounted
    /\ r \in pending
    /\ pending' = pending \ {r}
    /\ latest' = IF r.id = nextId - 1 THEN Fulfilled(data) ELSE latest
    /\ geo' = <<data>>
    /\ IF r.query # SelfQuery
       THEN /\ clock' = clock + 1
            /\ SaveLookup(r.query, data, clock)
       ELSE UNCHANGED <<history, storage, clock, mounted>>
    /\ UNCHANGED <<search, error, selectedForDelete, nextId, storageFull>>
    /\ IF mounted' THEN AfterHandler(TRUE) ELSE Unmounted

\* Mutant: a failed lookup resets the current GeoRecord
ResponseFail_ResetsGeo(r, kind) ==
    /\ mounted
    /\ r \in pending
    /\ pending' = pending \ {r}
    /\ latest' = IF r.id = nextId - 1 THEN Rejected ELSE latest
    /\ error' = FetchFailedMsg
    /\ geo' = <<>>
    /\ UNCHANGED <<search, history, selectedForDelete, storage, nextId,
                   clock, mounted, storageFull>>
    /\ AfterHandler(TRUE)

\* fetchGeoFor's catch: fetch rejected, !res.ok, or res.json() rejected
ResponseFail(r, kind) ==
    /\ mounted
    /\ r \in pending
    /\ pending' = pending \ {r}
    /\ latest' = IF r.id = nextId - 1 THEN Rejected ELSE latest
    /\ error' = FetchFailedMsg
    /\ UNCHANGED <<geo, search, history, selectedForDelete, storage, nextId,
                   clock, mounted, storageFull>>
    /\ AfterHandler(FALSE)

\* The browser's storage quota is reached, or space is freed
QuotaChange ==
    /\ mounted
    /\ storageFull' = ~storageFull
    /\ UNCHANGED <<geo, search, error, history, selectedForDelete, storage,
                   pending, nextId, latest, clock, mounted>>
    /\ UNCHANGED mapVars

Rows == 0..MaxRow

\* The row of a full history that is clicked: its last one
FullRow == HistoryCap - 1

\* The lookup handlers: the user types one of texts, searches, clears, or
\* clicks one of clickRows; the provider answers with one of bodies or fails
Lookups(texts, clickRows, bodies) ==
    \/ \E text \in texts : SetSearch(text)
    \/ handleSearch
    \/ handleClear
    \/ \E idx \in clickRows : handleHistoryClick(idx)
    \/ \E r \in pending, data \in bodies : ResponseOk(r, data)
    \/ \E r \in pending, kind \in FailKinds : ResponseFail(r, kind)

\* The deletion handlers: the user ticks one of tickRows, deletes the ticked
\* rows, or clears the history
Deletions(tickRows) ==
    \/ \E idx \in tickRows : toggleSelect(idx)
    \/ deleteSelected
    \/ clearAll

\* The whole component, a new address being searched and history rows being
\* clicked and ticked while lookups are in flight
Next == Lookups({NewIp}, Rows, {GeoNoLoc}) \/ Deletions(Rows)

Spec == Init /\ [][Next]_vars

\* The lookup handlers alone, with every kind of search text and response
NextLookup == Lookups(SearchTexts, Rows, Responses)

SpecLookup == Init /\ [][NextLookup]_vars

\* Lookups of a session that starts with a (nearly) full history
NextFull == Lookups({NewIp}, {FullRow}, Responses)

SpecFull == InitFull /\ [][NextFull]_vars

\* The bodies that put the map through its cases: two places and no place
MapBodies == {GeoManila, GeoNoLoc, GeoCebu}

\* Lookups of a session that starts with no history, watched on the map
NextMap == Lookups({NewIp}, {0}, MapBodies)

SpecMap == Mount({NoItem}) /\ [][NextMap]_vars

\* Texts that put the validator through its cases
ClassifyTexts ==
    { <<" ", " ">>,
      <<"8", ".", "8", ".", "8", ".", "8">>,
      <<":", ":", "1">>,
      <<"n", "o", "t", "-", "a", "n", "-", "i", "p">>,
      <<"1", ":", ":">>,
      <<"A", ":", "b", ":", "0", ":", "0", ":", "0", ":", "0", ":", "0", ":", "1">>,
      <<"1", ":", "2", ":", "3", ":", "4", ":", "5", ":", "6", ":", "7">>,
      <<"\t">> \o IpN(25) \o <<"5", "\n">>,
      IpN(25) \o <<"6">>,
      IpN(0) \o <<"1">>,
      IpN(0) \o <<"0", "1">>,
      IpN(0) \o <<"1", "0">>,
      <<"1", ".", "2", ".", "3">> }

\* Searches of a session that starts with no history
NextClassify == Lookups(ClassifyTexts, {0}, {GeoNoLoc})

SpecClassify == Mount({NoItem}) /\ [][NextClassify]_vars

\* The whole component in a browser whose storage quota can be reached
SpecQuota == Init /\ [][Next \/ QuotaChange]_vars

----------------------------------------------------------------------------
(* Properties *)

HasIp(h, ip) == \E i \in DOMAIN h : h[i].ip = ip

PositionsOf(h, ip) == {i \in DOMAIN h : h[i].ip = ip}

\* The step is the success branch of a pending manual lookup r
ManualOk(r) == r.query # SelfQuery /\ \E data \in Responses : ResponseOk(r, data)

\* C1: after any sequence of successful manual lookups the history holds no
\* two entries with the same ip, and at most 50 entries.
C1_UniqueAndBounded ==
    /\ \A i, j \in DOMAIN history : history[i].ip = history[j].ip => i = j
    /\ Len(history) <= HistoryCap

\* A lookup of this session was recorded into a history that is full
C1_Witness ==
    /\ Len(history) = HistoryCap
    /\ history[1].when >= 1

\* C2: last-dispatch-wins.  Once every lookup has resolved and the one
\* dispatched last succeeded, the current GeoRecord is that lookup's result,
\* whatever the order in which the responses arrived.
C2_LastDispatchWins ==
    (pending = {} /\ latest.status = "ok") => geo = latest.data

\* C3: dedup-by-replace.  When a manual lookup of an ip the history already
\* holds succeeds, the history then holds exactly one entry of that ip, at the
\* front, with the new data and a fresh timestamp, and the other entries keep
\* their order.
C3_DedupByReplace ==
    [][\A r \in pending :
          (ManualOk(r) /\ HasIp(history, r.query)) =>
             LET old == CHOOSE i \in DOMAIN history : history[i].ip = r.query
             IN  /\ PositionsOf(history', r.query) = {1}
                 /\ <<history'[1].data>> = geo'
                 /\ history'[1].when = clock
                 /\ \A i \in DOMAIN history : history'[1].when > history[i].when
                 /\ Len(history') = Len(history)
                 /\ \A i \in 2..Len(history') :
                       history'[i] = history[IF i - 1 < old THEN i - 1 ELSE i]
      ]_vars

\* The last of the three stored addresses was looked up again and has moved
\* from row 2 to the front
C3_Witness ==
    /\ Len(history) = 3
    /\ history[1].ip = IpN(3)
    /\ history[1].when >= 1
    /\ history[2] = StoredEntry(1)
    /\ history[3] = StoredEntry(2)

\* C4: eviction.  A successful manual lookup of an ip the history does not
\* hold puts the new entry in front of the old entries; when the history
\* held 50 entries it still holds 50 and the entry dropped is the last one.
C4_Eviction ==
    [][\A r \in pending :
          (ManualOk(r) /\ ~HasIp(history, r.query)) =>
             /\ history'[1].ip = r.query
             /\ <<history'[1].data>> = geo'
             /\ Len(history') = Min(Len(history) + 1, HistoryCap)
             /\ \A i \in 2..Len(history') : history'[i] = history[i - 1]
      ]_vars

\* The 51st address was inserted: the oldest of the 50 stored ones is gone
C4_Witness ==
    /\ Len(history) = HistoryCap
    /\ history[1].ip = NewIp
    /\ \A i \in 2..HistoryCap : history[i] = StoredEntry(i - 1)

\* C5: a self-lookup (at mount, or re-dispatched by handleClear) never changes
\* the history or the durable slot, neither when it is dispatched nor when it
\* succeeds or fails; when it succeeds the current GeoRecord is its result.
C5_SelfLookupFrame ==
    [][/\ handleClear => UNCHANGED <<geo, history, storage>>
       /\ \A r \in pending :
             r.query = SelfQuery =>
                /\ \A data \in Responses :
                      ResponseOk(r, data) =>
                         geo' = <<data>> /\ UNCHANGED <<history, storage>>
                /\ \A kind \in FailKinds :
                      ResponseFail(r, kind) => UNCHANGED <<geo, history, storage>>
      ]_vars

\* Only self-lookups were dispatched, all have been answered, and the stored
\* history is as it was
C5_Witness ==
    /\ nextId = 2
    /\ pending = {}
    /\ latest.status = "ok"
    /\ geo = latest.data
    /\ history = StoredHistory(3)
    /\ storage = Item(Stringify(StoredHistory(3)))

\* C6: a search whose text is empty after trimming, or is no IPv4 or IPv6
\* address, sets the error message and dispatches nothing: no request is
\* issued and the GeoRecord, the history and the slot are unchanged.
C6_InvalidSearch ==
    [][(handleSearch /\ Classify(search) = "Invalid") =>
          /\ error' \in {EnterIpMsg, InvalidIpMsg}
          /\ UNCHANGED <<pending, nextId, geo, history, storage>>
      ]_vars

\* A text that is no address was searched after the mount lookup was answered
C6_Witness ==
    /\ error = InvalidIpMsg
    /\ Classify(search) = "Invalid"
    /\ Trim(search) # <<>>
    /\ pending = {}
    /\ nextId = 1

\* C7: when a lookup fails, the error message is set and the GeoRecord and
\* the history are what they were before the response was handled.
C7_LookupFailure ==
    [][\A r \in pending, kind \in FailKinds :
          ResponseFail(r, kind) =>
             /\ error' = FetchFailedMsg
             /\ UNCHANGED <<geo, history>>
      ]_vars

\* A lookup failed after an earlier one had filled the GeoRecord
C7_Witness ==
    /\ error = FetchFailedMsg
    /\ latest.status = "failed"
    /\ geo # <<>>

\* C8: once the lookup dispatched last has succeeded, no error is showing,
\* even when an earlier, superseded lookup fails afterwards.  (A validation
\* message raised by a later search that dispatched nothing is set aside.)
C8_ErrorsClear ==
    (latest.status = "ok" /\ error \notin {EnterIpMsg, InvalidIpMsg})
       => error = ""

\* C9: deleteSelected leaves exactly the entries at the positions that are
\* not marked, in their order, none added or altered.
C9_DeleteSelected ==
    [][deleteSelected =>
          LET kept == {i \in DOMAIN history : (i - 1) \notin selectedForDelete}
          IN  /\ Len(history') = Cardinality(kept)
              /\ \A i \in kept :
                    history'[Cardinality({j \in kept : j <= i})] = history[i]
      ]_vars

\* Rows 0 and 2 of the three stored entries were deleted: row 1 is left
C9_Witness ==
    /\ history = <<StoredEntry(2)>>
    /\ storage = Item(Stringify(<<StoredEntry(2)>>))
    /\ selectedForDelete = {}

\* C10: no row is marked after a deletion commit, after Clear All, and
\* whenever the history sequence is replaced.
C10_SelectionCleared ==
    [][(deleteSelected \/ clearAll \/ history' # history)
          => selectedForDelete' = {}
      ]_vars

\* C11: loading never fails the caller.  While the slot holds no valid
\* encoding of an array of entries (it is missing, empty, damaged, or JSON of
\* another shape) the component is rendered and its history is empty.
C11_LoadNeverFails ==
    LET parsed == JsonParse(storage.text)
    IN  (~storage.present \/ ~parsed.ok \/ ~parsed.isArray)
           => (mounted /\ history = <<>>)

\* Where the geo effect puts a record whose loc parses
PlaceOf(g) == [lat |-> LocParts(g)[1], lon |-> LocParts(g)[2]]

CircleAt(place) ==
    [lat |-> place.lat, lon |-> place.lon, radius |-> CircleRadius]

\* C12: every time the current GeoRecord becomes a record whose loc parses,
\* the marker is placed at (lat, lon), the viewport is centred there, and
\* exactly one overlay circle exists afterwards, at (lat, lon); the first
\* record, from the lookup at mount, included.
C12_EveryRecordPlaced ==
    [][\A r \in pending, data \in MapBodies :
          (ResponseOk(r, data) /\ LocParsable(data)) =>
             /\ marker' # <<>>
             /\ marker'[1].lat = PlaceOf(data).lat
             /\ marker'[1].lon = PlaceOf(data).lon
             /\ mapView' = [lat |-> PlaceOf(data).lat, lon |-> PlaceOf(data).lon,
                            zoom |-> MapZoom]
             /\ circleLayers' = <<CircleAt(PlaceOf(data))>>
      ]_vars

\* C13: when the current GeoRecord becomes a record whose loc is absent or
\* does not parse, nothing on the map changes: marker, popup, viewport and
\* overlay circle are as before.
C13_UnparsableLeavesMap ==
    [][\A r \in pending, data \in MapBodies :
          (ResponseOk(r, data) /\ ~LocParsable(data)) =>
             UNCHANGED <<mapView, marker, markersCreated, precisionCircle,
                         circleLayers>>
      ]_vars

\* Manila was placed on the map, then a record without loc became current
C13_Witness ==
    /\ geo = <<GeoNoLoc>>
    /\ marker # <<>>
    /\ marker[1].lat = PlaceOf(GeoManila).lat
    /\ marker[1].popup = PopupParts(GeoManila)
    /\ mapView.zoom = MapZoom
    /\ circleLayers = <<CircleAt(PlaceOf(GeoManila))>>

\* C14 as stated: after a record was placed, a record whose loc does not
\* parse leaves the marker where it was and removes the overlay circle.
C14_UnparsableRemovesCircle ==
    [][\A r \in pending, data \in MapBodies :
          (ResponseOk(r, data) /\ marker # <<>> /\ ~LocParsable(data)) =>
             /\ marker' = marker
             /\ circleLayers' = <<>>
      ]_vars

\* C14 as amended: after a record was placed, a record whose loc does not
\* parse leaves the marker where it was and leaves the overlay circle of the
\* placed record on the map, at the marker's coordinates.
C14_UnparsableKeepsCircle ==
    [][\A r \in pending, data \in MapBodies :
          (ResponseOk(r, data) /\ marker # <<>> /\ ~LocParsable(data)) =>
             /\ marker' = marker
             /\ circleLayers' = circleLayers
             /\ circleLayers' = <<CircleAt(marker[1])>>
      ]_vars

\* Cebu was placed on the map, then a record without loc became current: the
\* circle around Cebu is still there
C14_Witness ==
    /\ geo = <<GeoNoLoc>>
    /\ marker # <<>>
    /\ marker[1].lat = PlaceOf(GeoCebu).lat
    /\ marker[1].lon = PlaceOf(GeoCebu).lon
    /\ precisionCircle = <<CircleAt(PlaceOf(GeoCebu))>>
    /\ circleLayers = precisionCircle

IsIpv4Text(ip) ==
    LET parts == Split(ip, ".")
    IN  /\ Len(parts) = 4
        /\ \A i \in 1..4 :
              /\ parts[i] # <<>>
              /\ \A j \in 1..Len(parts[i]) : parts[i][j] \in DigitChars
              /\ ToNat(parts[i]) <= 255

\* The full eight-group form, or exactly ::1
IsIpv6Text(ip) ==
    LET parts == Split(ip, ":")
    IN  \/ ip = <<":", ":", "1">>
        \/ /\ Len(parts) = 8
           /\ \A i \in 1..8 :
                 /\ Len(parts[i]) \in 1..4
                 /\ \A j \in 1..Len(parts[i]) : parts[i][j] \in HexChars

ClassOf(text) ==
    LET ip == Trim(text)
    IN  IF IsIpv4Text(ip) THEN "IPv4"
        ELSE IF IsIpv6Text(ip) THEN "IPv6"
        ELSE "Invalid"

\* C15: the class of every searched text, after trimming, is IPv4 iff it is
\* four dot-separated decimal octets each in [0,255], IPv6 iff it is the full
\* eight-group form or exactly ::1, and Invalid otherwise; and the search
\* dispatches a lookup iff the class is IPv4 or IPv6.
C15_ClassifyAndDispatch ==
    [][handleSearch =>
          /\ Classify(search) = ClassOf(search)
          /\ (nextId' = nextId + 1) <=> (ClassOf(search) # "Invalid")
      ]_vars

\* C16: only the lookup dispatched last may change shared state.  The
\* successful response of a manual lookup that a later dispatch has
\* superseded changes neither the history nor the durable slot.
C16_SupersededIgnored ==
    [][\A r \in pending :
          (ManualOk(r) /\ r.id # nextId - 1) => UNCHANGED <<history, storage>>
      ]_vars

\* C17: the durable slot mirrors the history.  After every step that leaves
\* the component rendered, decoding the slot (a missing key read as empty)
\* yields exactly the history; and Clear All leaves the history empty and the
\* slot without an item.
C17_SlotMirrorsHistory ==
    [][/\ mounted' =>
             /\ LoadHistory(storage').isArray
             /\ LoadHistory(storage').value = history'
       /\ clearAll => (history' = <<>> /\ ~storage'.present)
      ]_vars

\* A lookup was recorded in front of the three stored entries and rows 1 and 2
\* were deleted: the slot holds the encoding of the two entries left
C17_Witness ==
    /\ Len(history) = 2
    /\ history[1].ip = NewIp
    /\ history[2] = StoredEntry(3)
    /\ storage = Item(Stringify(history))

\* The addresses of the rows that are marked
MarkedIps ==
    {history[i + 1].ip : i \in {j \in selectedForDelete : j < Len(history)}}

IpsOf(h) == {h[i].ip : i \in DOMAIN h}

\* C18: the marks follow the entries, not the rows.  When a manual lookup is
\* recorded or Clear All runs between the marking and the commit, the marked
\* addresses are the ones marked before that are still in the history, so that
\* the commit deletes exactly the entries the user marked and no other.
C18_MarksFollowEntries ==
    [][((\E r \in pending : ManualOk(r)) \/ clearAll)
          => MarkedIps' = MarkedIps \cap IpsOf(history')
      ]_vars

\* C20: a write to the slot that fails is not fatal.  With the quota reached,
\* a deletion commit still removes the marked entries, clears the marks and
\* leaves the component rendered; and a recorded manual lookup still puts its
\* entry at the front and leaves the component rendered.
C20_WriteFailureNonFatal ==
    [][/\ (storageFull /\ deleteSelected) =>
             /\ history' = Remaining(history, selectedForDelete)
             /\ selectedForDelete' = EmptySelection
             /\ mounted'
       /\ \A r \in pending :
             (storageFull /\ ManualOk(r)) =>
                /\ mounted'
                /\ history' # <<>>
                /\ history'[1].ip = r.query
      ]_vars

====
